---- MODULE Spec2Model ----
(***************************************************************************)
(* Model of the language-statistics pipeline of src/main.rs:               *)
(* calculate_language_stats (paginated listing, parallel per-repository    *)
(* language fetch, fold into totals, percentage ranking) and               *)
(* render_progress_bar.                                                    *)
(*                                                                         *)
(* Modelling conventions                                                   *)
(*  - A serde_json::Value that is null or absent is the string Null.       *)
(*  - Option<T> is a record [some, val].                                   *)
(*  - HashMap<String, u64> is a function whose DOMAIN is its key set.      *)
(*  - An f64 percentage (count / total) * 100 is the exact rational        *)
(*    [num |-> count * 100, den |-> total]; byte counts of the model are   *)
(*    far below 2^53, so distinct rationals are distinct f64 values and    *)
(*    the f64 order is the rational order.  u64 sums do not overflow for   *)
(*    the byte counts of the model.                                        *)
(*  - The remote is chosen lazily: every request action draws the          *)
(*    response the remote gives from a bounded set.                        *)
(***************************************************************************)
EXTENDS Integers, Sequences, FiniteSets, TLC

VARIABLES
  pc,             \* position in calculate_language_stats
  page,           \* `page` (main.rs:110)
  all_repos,      \* `all_repos` (main.rs:109)
  worker,         \* per repository: position of its filter_map closure
  outcome,        \* per repository: the Option the closure returned
  lang_maps,      \* `lang_maps` (main.rs:130)
  languages,      \* `languages` (main.rs:154)
  result,         \* what calculate_language_stats returned
  page_requests,  \* history: page indexes requested, in order
  page_sizes,     \* history: records each page request returned (-1: none)
  listing_fault,  \* history: some page request could not complete
  req_count,      \* history: per repository, language-endpoint requests sent
  served,         \* history: per repository, what the language endpoint did
  out_of_order,   \* history: a fetch completed before a lower-indexed one
  overflow_checks,\* build profile: are integer overflow checks compiled in
  percentage,     \* argument of render_progress_bar, in tenths of a percent
  bar             \* what render_progress_bar returned

vars == <<pc, page, all_repos, worker, outcome, lang_maps, languages, result,
          page_requests, page_sizes, listing_fault, req_count, served,
          out_of_order, overflow_checks, percentage, bar>>

pipeVars == <<pc, page, all_repos, worker, outcome, lang_maps, languages,
              result, page_requests, page_sizes, listing_fault, req_count,
              served, out_of_order>>

barVars == <<overflow_checks, percentage, bar>>

-----------------------------------------------------------------------------
(* Bounds of the model *)

MaxPages == 2       \* non-empty listing pages the remote serves
MaxRepos == 3       \* repository records the remote serves over all pages
MaxMaps == 3        \* language maps folded when the fold is run on its own
NumBuckets == 13    \* buckets of the modelled hash table (bounds the seeds)
BelowZero == 300    \* render_progress_bar arguments start at -BelowZero tenths
MaxTenths == 1300   \* largest render_progress_bar argument, tenths of a percent

(* Program constants *)

PerPage == 100      \* per_page=100 in the listing URL
TopN == 8           \* language_percentages.truncate(8)
BarCells == 10      \* cells of the progress bar
FirstPage == 1      \* let mut page = 1

-----------------------------------------------------------------------------
(* Values *)

Null == "null"

None == [some |-> FALSE, val |-> <<>>]
Some(v) == [some |-> TRUE, val |-> v]

EmptyMap == <<>>

RECURSIVE SumOver(_, _)
SumOver(f, S) ==
  IF S = {} THEN 0
  ELSE LET x == CHOOSE y \in S : TRUE IN f[x] + SumOver(f, S \ {x})

Min(a, b) == IF a <= b THEN a ELSE b
Max(a, b) == IF a >= b THEN a ELSE b

-----------------------------------------------------------------------------
(* The remote: repository records and language endpoints *)

NoTopics == [is_array |-> FALSE, items |-> <<>>]
Topics(s) == [is_array |-> TRUE, items |-> s]

Repo(f, t, u) == [fork |-> f, topics |-> t, languages_url |-> u]

\* What each language endpoint holds.
LangData ==
  [ u1 |-> [Go |-> 300],
    u2 |-> [Go |-> 200, TS |-> 500],
    u3 |-> [Go |-> 0],
    u4 |-> [Rust |-> 9, C |-> 8, Python |-> 7, Java |-> 6, Ruby |-> 5,
            Shell |-> 4, Lua |-> 3, Nix |-> 2, Zig |-> 2] ]

Urls == DOMAIN LangData

\* Repository records the listing endpoint serves in the pipeline.
RepoPool ==
  { Repo("false", NoTopics, "u1"),
    Repo(Null, Topics(<<"documentation", "Mirror">>), "u2"),
    Repo("false", Topics(<<>>), "u3"),
    Repo("false", Topics(<<"mirror">>), "u2"),
    Repo("false", NoTopics, Null) }

\* Every shape of record the filter can meet.
ForkVals == {"true", "false", Null}
TopicVals ==
  { NoTopics, Topics(<<>>), Topics(<<"mirror">>), Topics(<<"no-stats">>),
    Topics(<<"Mirror">>), Topics(<<"No-Stats">>), Topics(<<"documentation">>),
    Topics(<<"documentation", "no-stats">>), Topics(<<"mirror", "documentation">>) }
AllRecords == { Repo(f, t, u) : f \in ForkVals, t \in TopicVals, u \in {"u1", Null} }

\* Sequences over S of length lo..hi.
SeqsOf(S, lo, hi) == UNION { [1..n -> S] : n \in lo..hi }

\* Responses to a listing request: the transport may fail (sent = FALSE);
\* otherwise there is a status and a body that is a JSON array or is not.
PageReply(sent, status, is_array, items) ==
  [sent |-> sent, status |-> status, is_array |-> is_array, items |-> items]

Statuses == {200, 500}
IsSuccess(status) == status \in 200..299

\* room: records the remote may still serve; more: may it serve a non-empty page.
PageResponses(room, more) ==
  {PageReply(FALSE, 0, FALSE, <<>>)}
    \cup { PageReply(TRUE, s, FALSE, <<>>) : s \in Statuses }
    \cup { PageReply(TRUE, s, TRUE, b) :
             s \in Statuses,
             b \in SeqsOf(RepoPool, 0, IF more THEN Min(room, PerPage) ELSE 0) }

LangReply(sent, status, is_map, map) ==
  [sent |-> sent, status |-> status, is_map |-> is_map, map |-> map]

LangResponses(url) ==
  {LangReply(FALSE, 0, FALSE, EmptyMap)}
    \cup { LangReply(TRUE, s, FALSE, EmptyMap) : s \in Statuses }
    \cup { LangReply(TRUE, s, TRUE, LangData[url]) : s \in Statuses }

-----------------------------------------------------------------------------
(* Repository filter: the head of the filter_map closure *)

\* serde_json::Value::as_bool
as_bool(v) == IF v = "true" THEN Some(TRUE)
              ELSE IF v = "false" THEN Some(FALSE)
              ELSE None

unwrap_or(opt, default) == IF opt.some THEN opt.val ELSE default

IsFork(repo) == unwrap_or(as_bool(repo.fork), FALSE)

\* Variant: the tags matched without regard to case.
HasExclusionTopicAnyCase(repo) ==
  /\ repo.topics.is_array
  /\ \E k \in DOMAIN repo.topics.items :
       repo.topics.items[k] \in {"mirror", "no-stats", "Mirror", "No-Stats"}

\* topics.iter().any(|t| t.as_str() == Some("mirror") || t.as_str() == Some("no-stats"))
HasExclusionTopic(repo) ==
  /\ repo.topics.is_array
  /\ \E k \in DOMAIN repo.topics.items :
       repo.topics.items[k] = "mirror" \/ repo.topics.items[k] = "no-stats"

\* Variant: a filter that ignores the case of the tags.
ExcludedAnyCase(repo) == IsFork(repo) \/ HasExclusionTopicAnyCase(repo)

\* The closure returns None before any request is made.
Excluded(repo) == IsFork(repo) \/ HasExclusionTopic(repo)

\* repo["languages_url"].as_str()
HasUrl(repo) == repo.languages_url # Null

\* .send().and_then(|resp| resp.json::<HashMap<String, u64>>()).ok()
\* The status of the reply is never read.
ParseLangReply(resp) ==
  IF ~resp.sent THEN None
  ELSE IF ~resp.is_map THEN None
  ELSE Some(resp.map)

-----------------------------------------------------------------------------
(* Aggregation: the fold of lang_maps into languages *)

Get(m, l) == IF l \in DOMAIN m THEN m[l] ELSE 0

\* Variant: insert(lang, bytes) in place of += bytes.
MergeOverwrite(acc, m) ==
  [l \in DOMAIN acc \cup DOMAIN m |-> IF l \in DOMAIN m THEN m[l] ELSE acc[l]]

\* for (lang, bytes) in map { *languages.entry(lang).or_insert(0) += bytes; }
Merge(acc, m) ==
  [l \in DOMAIN acc \cup DOMAIN m |-> Get(acc, l) + Get(m, l)]

\* for map in lang_maps { ... }, from an empty HashMap
RECURSIVE Fold(_)
Fold(maps) ==
  IF maps = <<>> THEN EmptyMap
  ELSE Merge(Fold(SubSeq(maps, 1, Len(maps) - 1)), maps[Len(maps)])

-----------------------------------------------------------------------------
(* Ranking *)

Langs == UNION { DOMAIN LangData[u] : u \in Urls }

\* A fixed numbering of the language names, hashed below.
LangCode ==
  [ Go |-> 0, TS |-> 1, Rust |-> 2, C |-> 3, Python |-> 4, Java |-> 5,
    Ruby |-> 6, Shell |-> 7, Lua |-> 8, Nix |-> 9, Zig |-> 10 ]

\* HashMap::new() draws a RandomState, and the bucket of a key depends on
\* it.  The seeds of the model shift every key by the same number of buckets;
\* the codes are below NumBuckets, so no two keys share a bucket.
HashSeeds == 0..(NumBuckets - 1)

Bucket(l, seed) == (LangCode[l] + seed) % NumBuckets

\* The keys in buckets 0..b, bucket by bucket.
RECURSIVE WalkBuckets(_, _, _)
WalkBuckets(keys, seed, b) ==
  IF b < 0 THEN <<>>
  ELSE LET before == WalkBuckets(keys, seed, b - 1)
           here == {l \in keys : Bucket(l, seed) = b}
       IN IF here = {} THEN before ELSE Append(before, CHOOSE l \in here : TRUE)

\* languages.into_iter(): the keys in the order the table yields them.
IterOrder(keys, seed) == WalkBuckets(keys, seed, NumBuckets - 1)

Pct(count, total) == [num |-> count * 100, den |-> total]

\* f64 `<` on two percentages (never NaN when their totals are positive).
PctLess(p, q) == p.num * q.den < q.num * p.den
PctEq(p, q) == p.num * q.den = q.num * p.den

\* languages.values().sum()
TotalBytes(totals) == SumOver(totals, DOMAIN totals)

\* .into_iter().map(|(lang, count)| (lang, (count as f64 / total_bytes as f64) * 100.0)).collect()
Percentages(totals, seed) ==
  LET order == IterOrder(DOMAIN totals, seed)
      total == TotalBytes(totals)
  IN [k \in DOMAIN order |->
        [lang |-> order[k], pct |-> Pct(totals[order[k]], total)]]

\* Variant: the comparison a.1.partial_cmp(&b.1), an ascending sort.
RECURSIVE InsertAsc(_, _)
InsertAsc(s, e) ==
  IF s = <<>> THEN <<e>>
  ELSE IF PctLess(e.pct, s[Len(s)].pct)
       THEN Append(InsertAsc(SubSeq(s, 1, Len(s) - 1), e), s[Len(s)])
       ELSE Append(s, e)

RECURSIVE SortAscending(_)
SortAscending(v) ==
  IF v = <<>> THEN <<>>
  ELSE InsertAsc(SortAscending(SubSeq(v, 1, Len(v) - 1)), v[Len(v)])

\* Stable insertion of e into s, which is sorted by descending percentage:
\* e moves left past the entries whose percentage is smaller than its own.
RECURSIVE InsertDesc(_, _)
InsertDesc(s, e) ==
  IF s = <<>> THEN <<e>>
  ELSE IF PctLess(s[Len(s)].pct, e.pct)
       THEN Append(InsertDesc(SubSeq(s, 1, Len(s) - 1), e), s[Len(s)])
       ELSE Append(s, e)

\* language_percentages.sort_by(|a, b| b.1.partial_cmp(&a.1).unwrap()):
\* sort_by is stable, and a stable sort has one result.
RECURSIVE SortByPercentage(_)
SortByPercentage(v) ==
  IF v = <<>> THEN <<>>
  ELSE InsertDesc(SortByPercentage(SubSeq(v, 1, Len(v) - 1)), v[Len(v)])

\* language_percentages.truncate(8)
Truncate(v) == SubSeq(v, 1, Min(Len(v), TopN))

\* Variant: no early return on total_bytes == 0.
RankedNoZeroGuard(totals, seed) ==
  Truncate(SortByPercentage(Percentages(totals, seed)))

\* From `let total_bytes` to the function's end: the list it returns.
Ranked(totals, seed) ==
  IF TotalBytes(totals) = 0 THEN <<>>
  ELSE Truncate(SortByPercentage(Percentages(totals, seed)))

-----------------------------------------------------------------------------
(* render_progress_bar *)

\* f64::round of n / d for d > 0: half-way cases go away from zero.
RoundHalfAway(n, d) ==
  IF n >= 0 THEN (2 * n + d) \div (2 * d)
  ELSE 0 - ((2 * (0 - n) + d) \div (2 * d))

Panicked == [panicked |-> TRUE, filled |-> 0, empty |-> 0]
Rendered(f, e) == [panicked |-> FALSE, filled |-> f, empty |-> e]
NotRendered == [panicked |-> FALSE, filled |-> -1, empty |-> -1]

\* `10 - num_filled` on usize.  With overflow checks a negative difference
\* panics; without them it wraps to 2^64 - (b - a), written here as the
\* negative number a - b (every b of the model is far below 2^63).
UsizeSub(a, b, checks) ==
  IF a >= b THEN [panicked |-> FALSE, val |-> a - b]
  ELSE IF checks THEN [panicked |-> TRUE, val |-> 0]
  ELSE [panicked |-> FALSE, val |-> a - b]

\* str::repeat(n): the byte length len * n is computed with checked_mul and
\* a value that does not fit usize panics ("capacity overflow").  A wrapped
\* count 2^64 - k, a negative n here, times the 3 bytes of a glyph never fits.
RepeatPanics(n) == n < 0

\* tenths: the argument in tenths of a percent, so percentage / 10.0 is
\* tenths / 100.
render_progress_bar(tenths, checks) ==
  LET num_filled == Max(RoundHalfAway(tenths, 100), 0)
      diff == UsizeSub(BarCells, num_filled, checks)
      num_empty == diff.val      \* .max(0) changes no usize
  IN IF diff.panicked THEN Panicked
     ELSE IF RepeatPanics(num_filled) \/ RepeatPanics(num_empty) THEN Panicked
     ELSE Rendered(num_filled, num_empty)

-----------------------------------------------------------------------------
(* calculate_language_stats *)

Pending == [kind |-> "pending", list |-> <<>>]
Err == [kind |-> "err", list |-> <<>>]
Ok(list) == [kind |-> "ok", list |-> list]

\* Variant: leave the loop on any page shorter than per_page.
ShortPage(repos) == Len(repos) < PerPage

\* if repos.is_empty() { break; }
LastPage(repos) == repos = <<>>

\* Variant: a closure that sends its request again after a failed fetch.
RetryOnFailure(resp) == IF ParseLangReply(resp).some THEN "done" ELSE "pending"

\* The closure ends with the reply of its one request, whatever it was.
AfterReply(resp) == "done"

\* Variant: `?` in place of .ok().
FetchErrorIsFatal == TRUE

\* .ok(): the Err of a failed fetch becomes None and goes no further.
FetchErrorPropagates == FALSE

\* .collect(): the Some values of the closures, in the order of all_repos.
RECURSIVE CollectSome(_)
CollectSome(opts) ==
  IF opts = <<>> THEN <<>>
  ELSE LET rest == CollectSome(SubSeq(opts, 1, Len(opts) - 1))
           last == opts[Len(opts)]
       IN IF last.some THEN Append(rest, last.val) ELSE rest

\* One turn of the listing loop.
ListPage ==
  /\ pc = "list"
  /\ \E resp \in PageResponses(MaxRepos - Len(all_repos), page - FirstPage < MaxPages) :
       /\ page_requests' = Append(page_requests, page)
       /\ page_sizes' = Append(page_sizes,
                               IF resp.sent /\ resp.is_array THEN Len(resp.items) ELSE -1)
       /\ listing_fault' = (listing_fault \/ ~resp.sent \/ ~resp.is_array
                              \/ ~IsSuccess(resp.status))
       /\ IF ~resp.sent \/ ~resp.is_array      \* .send()? and .json()?
            THEN /\ pc' = "failed"
                 /\ result' = Err
                 /\ UNCHANGED <<page, all_repos, worker, outcome, req_count, served>>
          ELSE IF LastPage(resp.items)
            THEN /\ pc' = "fetch"
                 /\ worker' = [i \in DOMAIN all_repos |-> "pending"]
                 /\ outcome' = [i \in DOMAIN all_repos |-> None]
                 /\ req_count' = [i \in DOMAIN all_repos |-> 0]
                 /\ served' = [i \in DOMAIN all_repos |-> "none"]
                 /\ UNCHANGED <<page, all_repos, result>>
          ELSE /\ all_repos' = all_repos \o resp.items
               /\ page' = page + 1
               /\ UNCHANGED <<pc, worker, outcome, req_count, served, result>>
  /\ UNCHANGED <<lang_maps, languages, out_of_order>>
  /\ UNCHANGED barVars

\* The closure of repository i up to the moment its request is sent.
StartFetch(i) ==
  /\ pc = "fetch"
  /\ worker[i] = "pending"
  /\ IF Excluded(all_repos[i]) \/ ~HasUrl(all_repos[i])
       THEN /\ worker' = [worker EXCEPT ![i] = "done"]
            /\ outcome' = [outcome EXCEPT ![i] = None]
            /\ UNCHANGED req_count
       ELSE /\ worker' = [worker EXCEPT ![i] = "waiting"]
            /\ req_count' = [req_count EXCEPT ![i] = @ + 1]
            /\ UNCHANGED outcome
  /\ UNCHANGED <<pc, page, all_repos, lang_maps, languages, result, page_requests,
                 page_sizes, listing_fault, served, out_of_order>>
  /\ UNCHANGED barVars

\* The closure of repository i from the reply of its request on.
FinishFetch(i) ==
  /\ pc = "fetch"
  /\ worker[i] = "waiting"
  /\ \E resp \in LangResponses(all_repos[i].languages_url) :
       LET parsed == ParseLangReply(resp) IN
       /\ served' = [served EXCEPT ![i] = IF resp.sent /\ resp.is_map THEN "ok" ELSE "fail"]
       /\ IF ~parsed.some /\ FetchErrorPropagates
            THEN /\ pc' = "failed"
                 /\ result' = Err
                 /\ UNCHANGED <<worker, outcome>>
            ELSE /\ worker' = [worker EXCEPT ![i] = AfterReply(resp)]
                 /\ outcome' = [outcome EXCEPT ![i] = parsed]
                 /\ UNCHANGED <<pc, result>>
  /\ out_of_order' = (out_of_order \/ \E j \in 1..(i - 1) : worker[j] # "done")
  /\ UNCHANGED <<page, all_repos, lang_maps, languages, page_requests, page_sizes,
                 listing_fault, req_count>>
  /\ UNCHANGED barVars

\* The parallel iterator has run every closure: collect().
Collect ==
  /\ pc = "fetch"
  /\ \A i \in DOMAIN worker : worker[i] = "done"
  /\ lang_maps' = CollectSome(outcome)
  /\ pc' = "fold"
  /\ UNCHANGED <<page, all_repos, worker, outcome, languages, result, page_requests,
                 page_sizes, listing_fault, req_count, served, out_of_order>>
  /\ UNCHANGED barVars

\* The fold of lang_maps into languages.
Aggregate ==
  /\ pc = "fold"
  /\ languages' = Fold(lang_maps)
  /\ pc' = "rank"
  /\ UNCHANGED <<page, all_repos, worker, outcome, lang_maps, result, page_requests,
                 page_sizes, listing_fault, req_count, served, out_of_order>>
  /\ UNCHANGED barVars

\* Total, percentages, sort, truncate, return.
Rank ==
  /\ pc = "rank"
  /\ \E seed \in HashSeeds : result' = Ok(Ranked(languages, seed))
  /\ pc' = "done"
  /\ UNCHANGED <<page, all_repos, worker, outcome, lang_maps, languages, page_requests,
                 page_sizes, listing_fault, req_count, served, out_of_order>>
  /\ UNCHANGED barVars

\* main: bar: render_progress_bar(percentage)
Render ==
  /\ bar = NotRendered
  /\ bar' = render_progress_bar(percentage, overflow_checks)
  /\ UNCHANGED <<overflow_checks, percentage>>
  /\ UNCHANGED pipeVars

-----------------------------------------------------------------------------
(* Specifications *)

InitPipe ==
  /\ pc = "list"
  /\ page = FirstPage
  /\ all_repos = <<>>
  /\ worker = <<>>
  /\ outcome = <<>>
  /\ lang_maps = <<>>
  /\ languages = EmptyMap
  /\ result = Pending
  /\ page_requests = <<>>
  /\ page_sizes = <<>>
  /\ listing_fault = FALSE
  /\ req_count = <<>>
  /\ served = <<>>
  /\ out_of_order = FALSE

InitNoBar ==
  /\ overflow_checks = TRUE
  /\ percentage = 0
  /\ bar = NotRendered

\* The whole of calculate_language_stats against a lazily chosen remote.
Init == InitPipe /\ InitNoBar

Next ==
  \/ ListPage
  \/ \E i \in DOMAIN all_repos : StartFetch(i)
  \/ \E i \in DOMAIN all_repos : FinishFetch(i)
  \/ Collect
  \/ Aggregate
  \/ Rank

Spec == Init /\ [][Next]_vars

\* calculate_language_stats after a listing that returned one record, the
\* record drawn from every shape the filter can meet.
InitListed ==
  /\ \E r \in AllRecords : all_repos = <<r>>
  /\ pc = "fetch"
  /\ page = FirstPage + 1
  /\ worker = <<"pending">>
  /\ outcome = <<None>>
  /\ lang_maps = <<>>
  /\ languages = EmptyMap
  /\ result = Pending
  /\ page_requests = <<FirstPage, FirstPage + 1>>
  /\ page_sizes = <<1, 0>>
  /\ listing_fault = FALSE
  /\ req_count = <<0>>
  /\ served = <<"none">>
  /\ out_of_order = FALSE
  /\ InitNoBar

NextListed ==
  \/ \E i \in DOMAIN all_repos : StartFetch(i)
  \/ \E i \in DOMAIN all_repos : FinishFetch(i)
  \/ Collect
  \/ Aggregate
  \/ Rank

SpecFilter == InitListed /\ [][NextListed]_vars

\* calculate_language_stats after a listing of non-fork, untagged
\* repositories whose fetches all succeeded, the endpoints drawn freely:
\* the fold and the ranking on every sequence of maps.
InitFetched ==
  /\ \E urls \in SeqsOf(Urls, 0, MaxMaps) :
       /\ all_repos = [i \in DOMAIN urls |-> Repo("false", NoTopics, urls[i])]
       /\ outcome = [i \in DOMAIN urls |-> Some(LangData[urls[i]])]
       /\ worker = [i \in DOMAIN urls |-> "done"]
       /\ req_count = [i \in DOMAIN urls |-> 1]
       /\ served = [i \in DOMAIN urls |-> "ok"]
       /\ page_sizes = IF urls = <<>> THEN <<0>> ELSE <<Len(urls), 0>>
       /\ page_requests = [k \in 1..(IF urls = <<>> THEN 1 ELSE 2) |-> FirstPage + k - 1]
       /\ page = IF urls = <<>> THEN FirstPage ELSE FirstPage + 1
  /\ pc = "fetch"
  /\ lang_maps = <<>>
  /\ languages = EmptyMap
  /\ result = Pending
  /\ listing_fault = FALSE
  /\ out_of_order = FALSE
  /\ InitNoBar

NextFetched ==
  \/ Collect
  \/ Aggregate
  \/ Rank

SpecRank == InitFetched /\ [][NextFetched]_vars

\* render_progress_bar on every argument of the range, under both builds.
InitBar ==
  /\ InitPipe
  /\ overflow_checks \in BOOLEAN
  /\ percentage \in (0 - BelowZero)..MaxTenths
  /\ bar = NotRendered

NextBar == Render

SpecBar == InitBar /\ [][NextBar]_vars

-----------------------------------------------------------------------------
(* Properties *)

\* The repositories whose closures exist: the listing has ended.
Repos == DOMAIN worker

\* The filter as the specification words it.
StatedExcluded(repo) ==
  \/ repo.fork = "true"
  \/ /\ repo.topics.is_array
     /\ \E k \in DOMAIN repo.topics.items :
          repo.topics.items[k] \in {"mirror", "no-stats"}

\* The per-language sums over the repositories whose fetch succeeded.
FetchedOk == {i \in DOMAIN served : served[i] = "ok"}
DataOf(i) == LangData[all_repos[i].languages_url]
RECURSIVE SumLang(_, _)
SumLang(l, S) ==
  IF S = {} THEN 0
  ELSE LET i == CHOOSE j \in S : TRUE IN Get(DataOf(i), l) + SumLang(l, S \ {i})
StatedTotals ==
  [l \in UNION {DOMAIN DataOf(i) : i \in FetchedOk} |-> SumLang(l, FetchedOk)]

\* C1: listing pages are requested one at a time in increasing order from
\* page 1; every request but the last returned records, so nothing is
\* requested after the first empty page; a listing that ended without error
\* ended on an empty page (pages 1..k+1 for k non-empty pages), never on a
\* non-empty page, however short.
ListingStopsAtFirstEmptyPage ==
  /\ page_requests = [k \in 1..Len(page_requests) |-> FirstPage + k - 1]
  /\ Len(page_sizes) = Len(page_requests)
  /\ \A k \in 1..(Len(page_sizes) - 1) : page_sizes[k] > 0
  /\ pc = "list" => \A k \in DOMAIN page_sizes : page_sizes[k] > 0
  /\ pc \notin {"list", "failed"} =>
       /\ page_sizes # <<>>
       /\ page_sizes[Len(page_sizes)] = 0
       /\ Len(all_repos) = SumOver(page_sizes, DOMAIN page_sizes)

ShortPagesThenEmptyPage ==
  /\ pc = "fetch"
  /\ Len(page_requests) = 3
  /\ page_sizes[1] \in 1..(PerPage - 1)
  /\ page_sizes[2] \in 1..(PerPage - 1)
  /\ page_sizes[3] = 0

\* C2: once a listing request could not complete (transport failure,
\* non-success status or a body that is no array) the function has failed,
\* no language endpoint is requested and no list is returned.
ListingFaultAborts ==
  listing_fault =>
    /\ pc = "failed"
    /\ result = Err
    /\ \A i \in DOMAIN req_count : req_count[i] = 0

\* C3: a failed language fetch never fails the function, and the totals are
\* the per-language sums over exactly the repositories whose fetch succeeded.
FetchFailuresAreDropped ==
  /\ pc = "failed" => \A i \in DOMAIN served : served[i] = "none"
  /\ pc \in {"rank", "done"} => languages = StatedTotals
  /\ pc = "done" => result.kind = "ok"

SomeFetchFailedSomeSucceeded ==
  /\ pc = "done"
  /\ result.kind = "ok"
  /\ result.list # <<>>
  /\ \E i, j \in Repos : served[i] = "fail" /\ served[j] = "ok"
  /\ languages = StatedTotals

\* C4: the filter excludes a record exactly when its fork flag is true or
\* its topic list holds the exact string "mirror" or "no-stats"; an excluded
\* record's closure ends without a request, an included record's closure
\* sends one (when the record has an endpoint).
FilterExcludesExactly ==
  \A i \in Repos :
    /\ Excluded(all_repos[i]) <=> StatedExcluded(all_repos[i])
    /\ (worker[i] # "pending" /\ all_repos[i].languages_url # Null) =>
         (req_count[i] = 0 <=> StatedExcluded(all_repos[i]))

OtherCaseTopicIsIncluded ==
  \E i \in Repos :
    /\ all_repos[i].fork # "true"
    /\ all_repos[i].topics = Topics(<<"Mirror">>)
    /\ req_count[i] = 1

\* Folding the collected maps in any permutation gives the totals the
\* function computes.
FoldIsOrderIndependent ==
  /\ \A p \in Permutations(DOMAIN lang_maps) :
       Fold([k \in DOMAIN lang_maps |-> lang_maps[p[k]]]) = Fold(lang_maps)
  /\ pc \in {"rank", "done"} => languages = Fold(lang_maps)

\* The totals map changes only in the fold, after every closure is done.
TotalsWrittenOnlyByFold ==
  [][languages' # languages =>
       /\ pc = "fold"
       /\ \A i \in Repos : worker[i] = "done"]_vars

\* C5: the totals do not depend on the order in which the maps are merged
\* (every permutation of the collected maps folds to the same map), and the
\* totals map is written only by the sequential fold that runs after every
\* fetch has finished, never while closures are still running.
OrderIndependentSingleWriter == []FoldIsOrderIndependent /\ TotalsWrittenOnlyByFold

FetchesCompletedOutOfOrder ==
  /\ pc = "done"
  /\ out_of_order
  /\ Len(lang_maps) >= 2
  /\ \E j, k \in DOMAIN lang_maps : lang_maps[j] # lang_maps[k]
  /\ languages = StatedTotals

\* C6: for a positive total the returned list holds min(8, languages)
\* distinct languages with their percentages, in descending percentage
\* order, and no discarded language has a larger percentage than an emitted one.
RankedDescendingTopN ==
  (pc = "done" /\ TotalBytes(languages) > 0) =>
    LET out == result.list
        total == TotalBytes(languages)
        emitted == {out[k].lang : k \in DOMAIN out}
    IN /\ result.kind = "ok"
       /\ Len(out) = Min(TopN, Cardinality(DOMAIN languages))
       /\ Cardinality(emitted) = Len(out)
       /\ \A k \in DOMAIN out :
            /\ out[k].lang \in DOMAIN languages
            /\ PctEq(out[k].pct, Pct(languages[out[k].lang], total))
       /\ \A j, k \in DOMAIN out : j < k => ~PctLess(out[j].pct, out[k].pct)
       /\ \A k \in DOMAIN out : \A l \in DOMAIN languages \ emitted :
            ~PctLess(out[k].pct, Pct(languages[l], total))

MoreThanTopNLanguages ==
  /\ pc = "done"
  /\ Cardinality(DOMAIN languages) > TopN
  /\ Len(result.list) = TopN
  /\ \E j, k \in DOMAIN result.list :
       PctLess(result.list[k].pct, result.list[j].pct)

\* C7: languages with equal percentages are emitted in the order in which
\* the merge first met them.
FirstSeen(l) ==
  CHOOSE k \in DOMAIN lang_maps :
    /\ l \in DOMAIN lang_maps[k]
    /\ \A j \in 1..(k - 1) : l \notin DOMAIN lang_maps[j]

TiesInFirstSeenOrder ==
  pc = "done" =>
    \A j, k \in DOMAIN result.list :
      (j < k /\ PctEq(result.list[j].pct, result.list[k].pct)) =>
        FirstSeen(result.list[j].lang) <= FirstSeen(result.list[k].lang)

\* C8: render_progress_bar never aborts and returns
\* max(0, round(P / 10)) filled and max(0, 10 - filled) empty glyphs.
BarNeverAborts ==
  bar # NotRendered =>
    LET filled == Max(RoundHalfAway(percentage, 100), 0) IN
    /\ ~bar.panicked
    /\ bar.filled = filled
    /\ bar.empty = Max(BarCells - filled, 0)

\* C9 as stated: no page is requested twice, and once its closure is done a
\* repository has had exactly one language request if it survives the
\* filter and none if it does not.
EverySurvivorRequestedOnce ==
  /\ \A j, k \in DOMAIN page_requests : j # k => page_requests[j] # page_requests[k]
  /\ \A i \in Repos :
       /\ req_count[i] <= 1
       /\ StatedExcluded(all_repos[i]) => req_count[i] = 0
       /\ worker[i] = "done" =>
            (req_count[i] = 1 <=> ~StatedExcluded(all_repos[i]))

\* C9 as amended: the survivors that are requested exactly once are those
\* that carry an endpoint; a survivor without one is never requested.
EverySurvivorWithUrlRequestedOnce ==
  /\ \A j, k \in DOMAIN page_requests : j # k => page_requests[j] # page_requests[k]
  /\ \A i \in Repos :
       /\ req_count[i] <= 1
       /\ StatedExcluded(all_repos[i]) => req_count[i] = 0
       /\ all_repos[i].languages_url = Null => req_count[i] = 0
       /\ worker[i] = "done" =>
            (req_count[i] = 1 <=>
               ~StatedExcluded(all_repos[i]) /\ all_repos[i].languages_url # Null)

FailedExcludedAndUrlLess ==
  /\ pc = "done"
  /\ \E i, j, k \in Repos :
       /\ served[i] = "fail" /\ req_count[i] = 1
       /\ StatedExcluded(all_repos[j]) /\ req_count[j] = 0
       /\ ~StatedExcluded(all_repos[k]) /\ all_repos[k].languages_url = Null
       /\ req_count[k] = 0

\* C10: when the totals sum to 0 the function returns Ok with an empty
\* list, whether the totals map is empty or holds keys of count 0.
ZeroTotalYieldsEmptyList ==
  (pc = "done" /\ SumOver(languages, DOMAIN languages) = 0) => result = Ok(<<>>)

ZeroCountKeysYieldEmptyList ==
  /\ pc = "done"
  /\ DOMAIN languages # {}
  /\ SumOver(languages, DOMAIN languages) = 0
  /\ result = Ok(<<>>)

====
